---------------------------- MODULE Spec2Model ----------------------------
(***************************************************************************)
(* The two Scribus scripts of the repository as one state machine:         *)
(*   snap_to_rounding.py                       (script = "snap")           *)
(*   duplicate_transform_repeat_fixedCount.py  (script = "dup")            *)
(* A behaviour is one run of main_wrapper of one of the scripts against a  *)
(* host document.  Dialog texts are sequences of one-character strings;    *)
(* numbers are exact rationals [n |-> numerator, d |-> denominator > 0]    *)
(* standing for the Python floats and ints of the scripts.                 *)
(***************************************************************************)
EXTENDS Integers, Sequences, FiniteSets, TLC

(***************************************************************************)
(* Bounds of the model.                                                    *)
(***************************************************************************)
\* longest text a user types into a value dialog
MaxLen == 3
\* error message boxes one run may show inside the retry loops
MaxRetries == 2

(***************************************************************************)
(* Characters the modelled user can type into each dialog: letters and a   *)
(* blank into the axis dialogs, digits, a sign, a slash (and a letter)     *)
(* into the numeric ones.                                                  *)
(***************************************************************************)
SnapAxisChars == {"x", "Y", " "}
IncrementChars == {"0", "1", "2", "-", "/", "a"}
DupAxisChars == {"y", "Y", " "}
NumberChars == {"0", "1", "-", "/", "a"}

RECURSIVE Texts(_, _)
Texts(chars, n) ==
    IF n = 0 THEN {<<>>}
    ELSE LET shorter == Texts(chars, n - 1)
         IN  shorter \cup {Append(t, c) : t \in shorter, c \in chars}

SnapAxisEntries == Texts(SnapAxisChars, MaxLen)
DupAxisEntries == Texts(DupAxisChars, MaxLen)
IncrementEntries == Texts(IncrementChars, MaxLen)
NumberEntries == Texts(NumberChars, MaxLen)

(***************************************************************************)
(* Python str: upper(), strip(), the `in` test for a character.            *)
(***************************************************************************)
UpperChar(c) ==
    CASE c = "x" -> "X"
      [] c = "y" -> "Y"
      [] c = "z" -> "Z"
      [] c = "a" -> "A"
      [] OTHER -> c

upper(s) == [i \in 1..Len(s) |-> UpperChar(s[i])]

IsSpace(c) == c = " "

RECURSIVE lstrip(_)
lstrip(s) == IF s # <<>> /\ IsSpace(Head(s)) THEN lstrip(Tail(s)) ELSE s

RECURSIVE rstrip(_)
rstrip(s) ==
    IF s # <<>> /\ IsSpace(s[Len(s)]) THEN rstrip(SubSeq(s, 1, Len(s) - 1)) ELSE s

strip(s) == rstrip(lstrip(s))

Contains(s, c) == \E i \in 1..Len(s) : s[i] = c

(***************************************************************************)
(* Exact rational arithmetic.                                              *)
(***************************************************************************)
Abs(k) == IF k < 0 THEN -k ELSE k

RECURSIVE Gcd(_, _)
Gcd(a, b) == IF b = 0 THEN a ELSE Gcd(b, a % b)

\* the rational n/d in lowest terms with a positive denominator (d # 0)
Rat(n, d) ==
    LET g == Gcd(Abs(n), Abs(d))
        s == IF d < 0 THEN -1 ELSE 1
    IN  [n |-> (s * n) \div g, d |-> (s * d) \div g]

Num(k) == [n |-> k, d |-> 1]
Zero == Num(0)

RatNeg(a) == [n |-> -a.n, d |-> a.d]
RatAdd(a, b) == Rat(a.n * b.d + b.n * a.d, a.d * b.d)
RatSub(a, b) == RatAdd(a, RatNeg(b))
RatMul(a, b) == Rat(a.n * b.n, a.d * b.d)
RatDiv(a, b) == Rat(a.n * b.d, a.d * b.n)
RatLess(a, b) == a.n * b.d < b.n * a.d
RatLeq(a, b) == a.n * b.d <= b.n * a.d
RatAbs(a) == [n |-> Abs(a.n), d |-> a.d]
\* floor: \div rounds towards minus infinity for a positive divisor
RatFloor(a) == a.n \div a.d
IsInteger(a) == a.d = 1

(***************************************************************************)
(* Python results: a value, or the exception raised instead.               *)
(***************************************************************************)
Value(v) == [exc |-> "none", val |-> v]
Raise(e) == [exc |-> e, val |-> Zero]

(***************************************************************************)
(* Python number parsing: float(str), int(str), fractions.Fraction(str),   *)
(* over texts of digits, signs, slashes, blanks and letters.               *)
(***************************************************************************)
IsDigit(c) == c \in {"0", "1", "2", "3", "4", "5", "6", "7", "8", "9"}

DigitVal(c) ==
    CASE c = "0" -> 0 [] c = "1" -> 1 [] c = "2" -> 2 [] c = "3" -> 3
      [] c = "4" -> 4 [] c = "5" -> 5 [] c = "6" -> 6 [] c = "7" -> 7
      [] c = "8" -> 8 [] c = "9" -> 9

AllDigits(s) == s # <<>> /\ \A i \in 1..Len(s) : IsDigit(s[i])

RECURSIVE DigitsVal(_)
DigitsVal(s) ==
    IF s = <<>> THEN 0
    ELSE 10 * DigitsVal(SubSeq(s, 1, Len(s) - 1)) + DigitVal(s[Len(s)])

IsSign(c) == c \in {"-", "+"}

\* [sign][digits] -> integer; the caller has checked the shape
SignedVal(s) ==
    IF IsSign(Head(s))
    THEN (IF Head(s) = "-" THEN -1 ELSE 1) * DigitsVal(Tail(s))
    ELSE DigitsVal(s)

IsSignedDigits(s) ==
    /\ s # <<>>
    /\ IF IsSign(Head(s)) THEN AllDigits(Tail(s)) ELSE AllDigits(s)

\* float(text): blanks around an optionally signed run of digits
float(text) ==
    LET s == strip(text)
    IN  IF IsSignedDigits(s) THEN Value(Num(SignedVal(s))) ELSE Raise("ValueError")

\* int(text): the same texts as float on these characters
int(text) ==
    LET s == strip(text)
    IN  IF IsSignedDigits(s) THEN Value(Num(SignedVal(s))) ELSE Raise("ValueError")

\* index of the first c in s, 0 when there is none
RECURSIVE Find(_, _, _)
Find(s, c, i) ==
    IF i > Len(s) THEN 0 ELSE IF s[i] = c THEN i ELSE Find(s, c, i + 1)

\* fractions.Fraction(text): [sign]digits[/digits], ValueError on any other
\* shape, ZeroDivisionError on a zero denominator
Fraction(text) ==
    LET s == strip(text)
        k == Find(s, "/", 1)
        num == IF k = 0 THEN s ELSE SubSeq(s, 1, k - 1)
        den == IF k = 0 THEN <<"1">> ELSE SubSeq(s, k + 1, Len(s))
    IN  IF ~(IsSignedDigits(num) /\ AllDigits(den)) THEN Raise("ValueError")
        ELSE IF DigitsVal(den) = 0 THEN Raise("ZeroDivisionError")
        ELSE Value(Rat(SignedVal(num), DigitsVal(den)))

(***************************************************************************)
(* Python eval(text) on the expressions these characters can spell:        *)
(* integer literals, names, unary and binary minus, / and //.              *)
(***************************************************************************)
IsLetter(c) == c \in {"a", "x", "y", "z", "A", "X", "Y", "Z"}
IsAlnum(c) == IsDigit(c) \/ IsLetter(c)

\* length of the longest prefix of s made of letters and digits
RECURSIVE RunLen(_)
RunLen(s) == IF s # <<>> /\ IsAlnum(Head(s)) THEN 1 + RunLen(Tail(s)) ELSE 0

Token(k, v, o) == [k |-> k, v |-> v, o |-> o]

\* a decimal integer literal: digits only, and no leading zero unless all
\* digits are zero; digits run into letters are no literal
NumberToken(run) ==
    IF AllDigits(run)
       /\ (Head(run) # "0" \/ \A i \in 1..Len(run) : run[i] = "0")
    THEN Token("num", DigitsVal(run), "")
    ELSE Token("bad", 0, "")

RECURSIVE Tokens(_)
Tokens(s) ==
    IF s = <<>> THEN <<>>
    ELSE LET c == Head(s)
         IN  IF IsSpace(c) THEN Tokens(Tail(s))
             ELSE IF IsAlnum(c)
             THEN LET k == RunLen(s)
                      run == SubSeq(s, 1, k)
                      rest == SubSeq(s, k + 1, Len(s))
                  IN  <<IF IsDigit(c) THEN NumberToken(run)
                                      ELSE Token("name", 0, "")>> \o Tokens(rest)
             ELSE IF c = "-" THEN <<Token("op", 0, "-")>> \o Tokens(Tail(s))
             ELSE IF c = "/"
             THEN IF Len(s) >= 2 /\ s[2] = "/"
                  THEN <<Token("op", 0, "//")>> \o Tokens(SubSeq(s, 3, Len(s)))
                  ELSE <<Token("op", 0, "/")>> \o Tokens(Tail(s))
             ELSE <<Token("bad", 0, "")>> \o Tokens(Tail(s))

\* the grammar: operand (binary-operator operand)*, where an operand is
\* any number of unary minus signs before a literal or a name
RECURSIVE WellFormed(_, _)
WellFormed(toks, expectOperand) ==
    IF toks = <<>> THEN ~expectOperand
    ELSE LET t == Head(toks)
         IN  IF t.k = "bad" THEN FALSE
             ELSE IF expectOperand
             THEN IF t.k = "op"
                  THEN t.o = "-" /\ WellFormed(Tail(toks), TRUE)
                  ELSE WellFormed(Tail(toks), FALSE)
             ELSE t.k = "op" /\ WellFormed(Tail(toks), TRUE)

\* Evaluation, left to right as the interpreter does it.  st.sum holds the
\* terms already closed by a binary minus, st.term the running product,
\* st.op the pending binary operator, st.neg the pending unary sign and
\* st.sub whether the running term is subtracted.
EvalStart ==
    [sum |-> Zero, term |-> Zero, op |-> "", neg |-> FALSE, sub |-> FALSE,
     operand |-> TRUE, exc |-> "none"]

Signed(v, neg) == IF neg THEN RatNeg(v) ELSE v

CloseTerm(st) == RatAdd(st.sum, Signed(st.term, st.sub))

RECURSIVE EvalTokens(_, _)
EvalTokens(toks, st) ==
    IF st.exc # "none" THEN Raise(st.exc)
    ELSE IF toks = <<>> THEN Value(CloseTerm(st))
    ELSE LET t == Head(toks)
             rest == Tail(toks)
         IN  IF st.operand
             THEN IF t.k = "op"
                  THEN EvalTokens(rest, [st EXCEPT !.neg = ~st.neg])
                  ELSE IF t.k = "name"
                  THEN Raise("NameError")
                  ELSE LET v == Signed(Num(t.v), st.neg)
                           next == [st EXCEPT !.operand = FALSE, !.neg = FALSE]
                       IN  IF st.op = ""
                           THEN EvalTokens(rest, [next EXCEPT !.term = v])
                           ELSE IF v = Zero
                           THEN Raise("ZeroDivisionError")
                           ELSE IF st.op = "/"
                           THEN EvalTokens(rest,
                                    [next EXCEPT !.term = RatDiv(st.term, v)])
                           ELSE EvalTokens(rest,
                                    [next EXCEPT !.term =
                                        Num(RatFloor(RatDiv(st.term, v)))])
             ELSE IF t.o = "-"
                  THEN EvalTokens(rest,
                           [st EXCEPT !.sum = CloseTerm(st), !.term = Zero,
                                      !.sub = TRUE, !.op = "",
                                      !.operand = TRUE])
                  ELSE EvalTokens(rest, [st EXCEPT !.op = t.o, !.operand = TRUE])

eval(text) ==
    LET toks == Tokens(text)
    IN  IF ~WellFormed(toks, TRUE) THEN Raise("SyntaxError")
        ELSE EvalTokens(toks, EvalStart)

(***************************************************************************)
(* Python round(x) of a float: to the nearest integer, ties to the even    *)
(* one.                                                                    *)
(***************************************************************************)
round(q) ==
    LET f == RatFloor(q)
        twice == RatSub(RatMul(Num(2), q), Num(2 * f))   \* 2 * (q - f)
    IN  IF RatLess(twice, Num(1)) THEN f
        ELSE IF RatLess(Num(1), twice) THEN f + 1
        ELSE IF f % 2 = 0 THEN f ELSE f + 1

\* snap_to_rounding.py: round_to_increment
round_to_increment(value, increment) ==
    IF increment = Zero THEN Raise("ZeroDivisionError")
    ELSE Value(RatMul(Num(round(RatDiv(value, increment))), increment))

(***************************************************************************)
(* The host document: three objects at positions with negative, zero and  *)
(* positive coordinates, no object with x = y.                             *)
(***************************************************************************)
Objects == {"o1", "o2", "o3"}

Point(px, py) == [x |-> Num(px), y |-> Num(py)]

Layout ==
    [o \in Objects |->
        CASE o = "o1" -> Point(1, -7)
          [] o = "o2" -> Point(-1, 7)
          [] o = "o3" -> Point(7, 0)]

\* what the user may have selected: any objects, in any order
Selections ==
    {s \in UNION {[1..n -> Objects] : n \in 0..Cardinality(Objects)} :
        \A i, j \in 1..Len(s) : s[i] = s[j] => i = j}

Scripts == {"snap", "dup"}

VARIABLES
    script,             \* which script main_wrapper belongs to
    pc,                 \* the statement the run is at
    haveDoc,            \* host: a document is open
    pos,                \* host: object name -> position, [x, y]
    selected,           \* host: the selected objects, in selection order
    statusMsg,          \* host: the status bar text
    log,                \* host: the calls made so far, [call, arg]
    dismissed,          \* host: the last value dialog came back empty
    exc,                \* the exception in flight, "none" when there is none
    selection,          \* snap main: the list get_selected_objects returned
    idx,                \* snap main: position of the for loop in selection
    axis,               \* main: the axis get_user_input/prompt_for_axis returned
    rounding_increment, \* snap main: the increment get_user_input returned
    selected_element,   \* dup main: getSelectedObject(0)
    element_name,       \* dup main: the name prompt_for_element_name returned
    spacing,            \* dup main: the spacing prompt_for_spacing returned
    duplicate_count     \* dup main: the count prompt_for_duplicate_count returned

vars ==
    <<script, pc, haveDoc, pos, selected, statusMsg, log, dismissed, exc,
      selection, idx, axis, rounding_increment, selected_element,
      element_name, spacing, duplicate_count>>

host == <<haveDoc, pos, selected>>
snapLocals == <<selection, idx, rounding_increment>>
dupLocals == <<selected_element, element_name, spacing, duplicate_count>>

Call(c, a) == [call |-> c, arg |-> a]

\* the texts of the error boxes of the while loops
RetryTexts ==
    { "Invalid axis selected. Please enter 'X' or 'Y'.",
      "Spacing must be 0 or greater.",
      "Invalid input. Please enter a valid number (e.g., 4, 2.34, or 4/32).",
      "Number of duplicates must be greater than 0.",
      "Invalid input. Please enter a valid whole number." }

\* the error boxes the while loops have shown so far
RetryBoxes ==
    {i \in 1..Len(log) : log[i].call = "messageBox" /\ log[i].arg \in RetryTexts}

\* the modelled user answers at most MaxRetries dialogs with a text the
\* loops turn away
MayRetry == Cardinality(RetryBoxes) < MaxRetries

Init ==
    /\ script \in Scripts
    /\ pc = "start"
    /\ haveDoc \in BOOLEAN
    /\ IF haveDoc
       THEN pos = Layout /\ selected \in Selections
       ELSE pos = <<>> /\ selected = <<>>
    /\ statusMsg = ""
    /\ log = <<>>
    /\ dismissed = FALSE
    /\ exc = "none"
    /\ selection = <<>>
    /\ idx = 0
    /\ axis = <<>>
    /\ rounding_increment = Zero
    /\ selected_element = ""
    /\ element_name = ""
    /\ spacing = Zero
    /\ duplicate_count = 0

(***************************************************************************)
(* main_wrapper, the same in both scripts.                                 *)
(***************************************************************************)
\* try: statusMessage("Running script..."); progressReset(); main(argv)
main_wrapper_try ==
    /\ pc = "start"
    /\ statusMsg' = "Running script..."
    /\ log' = log \o <<Call("statusMessage", "Running script..."),
                       Call("progressReset", "")>>
    /\ pc' = "main"
    /\ UNCHANGED <<script, host, dismissed, exc, axis, snapLocals, dupLocals>>

\* the cleanup after main() instead of in a finally block: skipped when
\* main raises
Cleanup_after_main ==
    IF exc # "none" THEN <<>>
    ELSE (IF haveDoc THEN <<Call("setRedraw", "True")>> ELSE <<>>)
             \o <<Call("statusMessage", ""), Call("progressReset", "")>>

\* finally: setRedraw(True) if haveDoc(); statusMessage(""); progressReset()
Cleanup ==
    (IF haveDoc THEN <<Call("setRedraw", "True")>> ELSE <<>>)
        \o <<Call("statusMessage", ""), Call("progressReset", "")>>

main_wrapper_finally ==
    /\ pc = "finally"
    /\ statusMsg' = ""
    /\ log' = log \o Cleanup
    /\ pc' = "done"
    /\ UNCHANGED <<script, host, dismissed, exc, axis, snapLocals, dupLocals>>

(***************************************************************************)
(* snap_to_rounding.py                                                     *)
(***************************************************************************)
\* main: if scribus.selectionCount() == 0
SnapSelectionInvalid(count) == count = 0

\* main: the selection check and get_selected_objects.  selectionCount()
\* raises NoDocOpenError when the host has no document.
snap_main ==
    /\ script = "snap" /\ pc = "main"
    /\ IF ~haveDoc
       THEN /\ exc' = "NoDocOpenError"
            /\ pc' = "finally"
            /\ UNCHANGED <<log, selection>>
       ELSE IF SnapSelectionInvalid(Len(selected))
       THEN /\ log' = Append(log, Call("messageBox", "No elements selected."))
            /\ pc' = "finally"
            /\ UNCHANGED <<exc, selection>>
       ELSE /\ selection' = selected
            /\ pc' = "snap_axis"
            /\ UNCHANGED <<exc, log>>
    /\ UNCHANGED <<script, host, statusMsg, dismissed, axis, idx,
                   rounding_increment, dupLocals>>

\* get_user_input, the axis: upper() of the dialog text must be X or Y
SnapAxisAccepted(text) == upper(text) \in {<<"X">>, <<"Y">>}

get_user_input_axis ==
    /\ script = "snap" /\ pc = "snap_axis"
    /\ \E text \in SnapAxisEntries :
        /\ dismissed' = (text = <<>>)
        /\ IF SnapAxisAccepted(text)
           THEN /\ axis' = upper(text)
                /\ log' = Append(log, Call("valueDialog", "Snap To Rounding (1/2)"))
                /\ pc' = "snap_increment"
                /\ UNCHANGED exc
           ELSE /\ log' = log \o <<Call("valueDialog", "Snap To Rounding (1/2)"),
                                   Call("messageBox", "Invalid axis. Please enter 'X' or 'Y'.")>>
                /\ exc' = "SystemExit"
                /\ pc' = "finally"
                /\ UNCHANGED axis
    /\ UNCHANGED <<script, host, statusMsg, snapLocals, dupLocals>>

\* get_user_input, the increment: eval for a text with a slash, float
\* otherwise
SnapIncrement(text) == IF Contains(text, "/") THEN eval(text) ELSE float(text)

\* except (ValueError, SyntaxError, ZeroDivisionError)
SnapCaught == {"ValueError", "SyntaxError", "ZeroDivisionError"}

get_user_input_increment ==
    /\ script = "snap" /\ pc = "snap_increment"
    /\ \E text \in IncrementEntries :
        LET r == SnapIncrement(text)
            shown == Append(log, Call("valueDialog", "Snap To Rounding (2/2)"))
        IN  /\ dismissed' = (text = <<>>)
            /\ IF r.exc = "none"
               THEN /\ rounding_increment' = r.val
                    /\ log' = shown
                    /\ idx' = 1
                    /\ pc' = "snap_loop"
                    /\ UNCHANGED exc
               ELSE IF r.exc \in SnapCaught
               THEN /\ log' = Append(shown, Call("messageBox",
                        "Invalid rounding increment. Please enter a decimal or fraction."))
                    /\ exc' = "SystemExit"
                    /\ pc' = "finally"
                    /\ UNCHANGED <<rounding_increment, idx>>
               ELSE /\ log' = shown
                    /\ exc' = r.exc
                    /\ pc' = "finally"
                    /\ UNCHANGED <<rounding_increment, idx>>
    /\ UNCHANGED <<script, host, statusMsg, axis, selection, dupLocals>>

\* the rounded value written to both coordinates
Snapped_both(p, increment, ax) ==
    LET r == round_to_increment(IF ax = <<"X">> THEN p.x ELSE p.y, increment)
    IN  IF r.exc # "none" THEN Raise(r.exc)
        ELSE Value([x |-> r.val, y |-> r.val])

\* snap_position: the position the element is moved to, or the exception
Snapped(p, increment, ax) ==
    LET r == round_to_increment(IF ax = <<"X">> THEN p.x ELSE p.y, increment)
    IN  IF r.exc # "none" THEN Raise(r.exc)
        ELSE Value(IF ax = <<"X">> THEN [p EXCEPT !.x = r.val]
                                   ELSE [p EXCEPT !.y = r.val])

\* main: one turn of `for element in selection: snap_position(...)`
snap_position ==
    /\ script = "snap" /\ pc = "snap_loop"
    /\ idx <= Len(selection)
    /\ LET element == selection[idx]
           r == Snapped(pos[element], rounding_increment, axis)
       IN  IF r.exc = "none"
           THEN /\ pos' = [pos EXCEPT ![element] = r.val]
                /\ log' = Append(log, Call("moveObjectAbs", element))
                /\ idx' = idx + 1
                /\ UNCHANGED <<pc, exc>>
           ELSE /\ exc' = r.exc
                /\ pc' = "finally"
                /\ UNCHANGED <<pos, log, idx>>
    /\ UNCHANGED <<script, haveDoc, selected, statusMsg, dismissed, axis,
                   selection, rounding_increment, dupLocals>>

\* main: the loop is over, return
snap_return ==
    /\ script = "snap" /\ pc = "snap_loop"
    /\ idx > Len(selection)
    /\ pc' = "finally"
    /\ UNCHANGED <<script, host, statusMsg, log, dismissed, exc, axis,
                   snapLocals, dupLocals>>

(***************************************************************************)
(* duplicate_transform_repeat_fixedCount.py                                *)
(***************************************************************************)
\* the check of the snap script in its place: only an empty selection is
\* turned away
DupSelectionInvalid_zero(count) == count = 0

\* main: if scribus.selectionCount() != 1
DupSelectionInvalid(count) == count # 1

\* main: the selection check and getSelectedObject(0).  selectionCount()
\* raises NoDocOpenError when the host has no document.
dup_main ==
    /\ script = "dup" /\ pc = "main"
    /\ IF ~haveDoc
       THEN /\ exc' = "NoDocOpenError"
            /\ pc' = "finally"
            /\ UNCHANGED <<log, selected_element>>
       ELSE IF DupSelectionInvalid(Len(selected))
       THEN /\ log' = Append(log, Call("messageBox",
                                       "Please select exactly one element."))
            /\ pc' = "finally"
            /\ UNCHANGED <<exc, selected_element>>
       ELSE /\ selected_element' = selected[1]
            /\ pc' = "dup_name"
            /\ UNCHANGED <<exc, log>>
    /\ UNCHANGED <<script, host, statusMsg, dismissed, axis, snapLocals,
                   element_name, spacing, duplicate_count>>

\* the dialog is pre-filled with the element's name: the user accepts it
\* or dismisses the dialog
NameEntries(default_name) == {"", default_name}

\* the test for an empty result left out
NameIsEmpty_never(name_input) == FALSE

\* if name_input == ""
NameIsEmpty(name_input) == name_input = ""

prompt_for_element_name ==
    /\ script = "dup" /\ pc = "dup_name"
    /\ \E name_input \in NameEntries(selected_element) :
        /\ dismissed' = (name_input = "")
        /\ log' = Append(log, Call("valueDialog", "Element Name"))
        /\ IF NameIsEmpty(name_input)
           THEN /\ exc' = "SystemExit"
                /\ pc' = "finally"
                /\ UNCHANGED element_name
           ELSE /\ element_name' = name_input
                /\ pc' = "dup_axis"
                /\ UNCHANGED exc
    /\ UNCHANGED <<script, host, statusMsg, axis, snapLocals,
                   selected_element, spacing, duplicate_count>>

\* prompt_for_axis: axis_input.strip().upper() in ["X", "Y"]
DupAxisAccepted(axis_input) == upper(strip(axis_input)) \in {<<"X">>, <<"Y">>}

\* one turn of the while loop of prompt_for_axis
prompt_for_axis ==
    /\ script = "dup" /\ pc = "dup_axis"
    /\ \E axis_input \in DupAxisEntries :
        LET shown == Append(log, Call("valueDialog", "Axis for Duplication"))
        IN  /\ dismissed' = (axis_input = <<>>)
            /\ IF axis_input = <<>>
               THEN /\ log' = shown
                    /\ exc' = "SystemExit"
                    /\ pc' = "finally"
                    /\ UNCHANGED axis
               ELSE IF DupAxisAccepted(axis_input)
               THEN /\ log' = shown
                    /\ axis' = axis_input
                    /\ pc' = "dup_spacing"
                    /\ UNCHANGED exc
               ELSE /\ MayRetry
                    /\ log' = Append(shown, Call("messageBox",
                           "Invalid axis selected. Please enter 'X' or 'Y'."))
                    /\ UNCHANGED <<pc, exc, axis>>
    /\ UNCHANGED <<script, host, statusMsg, snapLocals, dupLocals>>

\* prompt_for_spacing: Fraction for a text with a slash, float otherwise
DupSpacing(spacing_input) ==
    IF Contains(spacing_input, "/") THEN Fraction(spacing_input)
                                    ELSE float(spacing_input)

\* except ValueError
DupCaught == {"ValueError"}

\* what the loop sees of an entry: whether it is empty, and its conversion
SpacingInputs ==
    {[empty |-> text = <<>>, float |-> DupSpacing(text)] : text \in NumberEntries}

\* one turn of the while loop of prompt_for_spacing
prompt_for_spacing ==
    /\ script = "dup" /\ pc = "dup_spacing"
    /\ \E spacing_input \in SpacingInputs :
        LET shown == Append(log, Call("valueDialog", "Spacing"))
            r == spacing_input.float
        IN  /\ dismissed' = spacing_input.empty
            /\ IF spacing_input.empty
               THEN /\ log' = shown
                    /\ exc' = "SystemExit"
                    /\ pc' = "finally"
                    /\ UNCHANGED spacing
               ELSE IF r.exc = "none" /\ RatLeq(Zero, r.val)
               THEN /\ log' = shown
                    /\ spacing' = r.val
                    /\ pc' = "dup_count"
                    /\ UNCHANGED exc
               ELSE IF r.exc = "none"
               THEN /\ MayRetry
                    /\ log' = Append(shown, Call("messageBox",
                                                 "Spacing must be 0 or greater."))
                    /\ UNCHANGED <<pc, exc, spacing>>
               ELSE IF r.exc \in DupCaught
               THEN /\ MayRetry
                    /\ log' = Append(shown, Call("messageBox",
                           "Invalid input. Please enter a valid number (e.g., 4, 2.34, or 4/32)."))
                    /\ UNCHANGED <<pc, exc, spacing>>
               ELSE /\ log' = shown
                    /\ exc' = r.exc
                    /\ pc' = "finally"
                    /\ UNCHANGED spacing
    /\ UNCHANGED <<script, host, statusMsg, axis, snapLocals,
                   selected_element, element_name, duplicate_count>>

\* what the loop sees of an entry: whether it is empty, and its conversion
CountInputs ==
    {[empty |-> text = <<>>, int |-> int(text)] : text \in NumberEntries}

\* one turn of the while loop of prompt_for_duplicate_count; with the count
\* returned main prints the two names and returns
prompt_for_duplicate_count ==
    /\ script = "dup" /\ pc = "dup_count"
    /\ \E count_input \in CountInputs :
        LET shown == Append(log, Call("valueDialog", "Number of Duplicates"))
            r == count_input.int
        IN  /\ dismissed' = count_input.empty
            /\ IF count_input.empty
               THEN /\ log' = shown
                    /\ exc' = "SystemExit"
                    /\ pc' = "finally"
                    /\ UNCHANGED duplicate_count
               ELSE IF r.exc = "none" /\ r.val.n > 0
               THEN /\ log' = shown
                    /\ duplicate_count' = r.val.n
                    /\ pc' = "finally"
                    /\ UNCHANGED exc
               ELSE IF r.exc = "none"
               THEN /\ MayRetry
                    /\ log' = Append(shown, Call("messageBox",
                           "Number of duplicates must be greater than 0."))
                    /\ UNCHANGED <<pc, exc, duplicate_count>>
               ELSE /\ MayRetry
                    /\ log' = Append(shown, Call("messageBox",
                           "Invalid input. Please enter a valid whole number."))
                    /\ UNCHANGED <<pc, exc, duplicate_count>>
    /\ UNCHANGED <<script, host, statusMsg, axis, snapLocals,
                   selected_element, element_name, spacing>>

Next ==
    \/ main_wrapper_try
    \/ snap_main
    \/ get_user_input_axis
    \/ get_user_input_increment
    \/ snap_position
    \/ snap_return
    \/ dup_main
    \/ prompt_for_element_name
    \/ prompt_for_axis
    \/ prompt_for_spacing
    \/ prompt_for_duplicate_count
    \/ main_wrapper_finally

Spec == Init /\ [][Next]_vars

(***************************************************************************)
(* What the host has seen of a run.                                        *)
(***************************************************************************)
CallsOf(c) == {i \in 1..Len(log) : log[i].call = c}
Moves == CallsOf("moveObjectAbs")
ValueDialogs == CallsOf("valueDialog")
MessageBoxes == CallsOf("messageBox")

\* the elements moved, in the order of the calls
RECURSIVE MovedOf(_)
MovedOf(l) ==
    IF l = <<>> THEN <<>>
    ELSE IF Head(l).call = "moveObjectAbs" THEN <<Head(l).arg>> \o MovedOf(Tail(l))
    ELSE MovedOf(Tail(l))

\* the caption of the value dialog shown last, "" when none was shown
LastDialog ==
    IF ValueDialogs = {} THEN ""
    ELSE log[CHOOSE i \in ValueDialogs : \A j \in ValueDialogs : j <= i].arg

Ended == pc \in {"finally", "done"}

IsSelected(o) == \E i \in 1..Len(selected) : selected[i] = o

(***************************************************************************)
(* C1.  For every position value and every rounding increment that        *)
(* get_user_input returns, round_to_increment returns a multiple of the    *)
(* increment, and no other multiple of the increment is strictly closer    *)
(* to the value.  Stated when get_user_input has returned, for the         *)
(* coordinates of the selected elements.                                   *)
(***************************************************************************)
Distance(a, b) == RatAbs(RatSub(a, b))

NearestMultiple(r, value, increment) ==
    /\ r.exc = "none"
    /\ increment # Zero
    /\ IsInteger(RatDiv(r.val, increment))
    /\ LET q == RatFloor(RatDiv(value, increment))
       IN  \A k \in (q - 2)..(q + 2) :
               RatLeq(Distance(r.val, value),
                      Distance(RatMul(Num(k), increment), value))

C1_RoundsToNearestMultiple ==
    (script = "snap" /\ pc = "snap_loop") =>
        \A i \in 1..Len(selection) : \A value \in {pos[selection[i]].x, pos[selection[i]].y} :
            NearestMultiple(round_to_increment(value, rounding_increment),
                            value, rounding_increment)

(***************************************************************************)
(* C2.  When the duplicate script runs to completion with one element      *)
(* selected, axis A, spacing s and count N, the document contains N        *)
(* duplicates of the element, the k-th offset by k*s along A and by 0      *)
(* along the other axis.                                                   *)
(***************************************************************************)
Duplicates == DOMAIN pos \ Objects

Offset(p, k) ==
    IF upper(strip(axis)) = <<"X">>
    THEN [p EXCEPT !.x = RatAdd(p.x, RatMul(Num(k), spacing))]
    ELSE [p EXCEPT !.y = RatAdd(p.y, RatMul(Num(k), spacing))]

C2_DuplicatesPlaced ==
    (script = "dup" /\ pc = "done" /\ exc = "none" /\ Len(selected) = 1) =>
        /\ Cardinality(Duplicates) = duplicate_count
        /\ \A k \in 1..duplicate_count :
               \E d \in Duplicates : pos[d] = Offset(pos[selected_element], k)

(***************************************************************************)
(* C3.  In both scripts, whenever the axis prompt has returned a value to  *)
(* its caller, the returned axis is exactly "X" or exactly "Y".            *)
(***************************************************************************)
AxisReturned ==
    \/ script = "snap" /\ pc \in {"snap_increment", "snap_loop"}
    \/ script = "dup" /\ pc \in {"dup_spacing", "dup_count"}

C3_AxisIsXorY == AxisReturned => axis \in {<<"X">>, <<"Y">>}

(***************************************************************************)
(* C4.  The rounding increment returned by get_user_input and the spacing  *)
(* returned by prompt_for_spacing are never negative.                      *)
(***************************************************************************)
C4_IncrementNeverNegative ==
    /\ ~RatLess(rounding_increment, Zero)
    /\ ~RatLess(spacing, Zero)

(***************************************************************************)
(* C5.  When the selection count is invalid (zero for the snap script,     *)
(* anything but one for the duplicate script), main shows one message box  *)
(* and returns: no value dialog is shown, no object is moved or            *)
(* duplicated, the document is unchanged.                                  *)
(***************************************************************************)
InvalidSelection ==
    /\ haveDoc
    /\ IF script = "snap" THEN Len(selected) = 0 ELSE Len(selected) # 1

C5_InvalidSelectionIsNoOp ==
    InvalidSelection =>
        /\ ValueDialogs = {}
        /\ Moves = {}
        /\ pos = Layout
        /\ exc = "none"
        /\ pc \in {"start", "main", "finally", "done"}
        /\ Cardinality(MessageBoxes) = (IF Ended THEN 1 ELSE 0)

C5_Witness ==
    /\ script = "dup" /\ Len(selected) = 2 /\ pc = "done"
    /\ Cardinality(MessageBoxes) = 1

(***************************************************************************)
(* C6.  In both scripts, at every value dialog, an empty result ends the   *)
(* script at once: the run is on its way out through sys.exit with that    *)
(* dialog the last one shown, and no object has been moved or duplicated.  *)
(***************************************************************************)
C6_DismissEndsScript ==
    dismissed =>
        /\ Ended
        /\ exc = "SystemExit"
        /\ Moves = {}
        /\ pos = Layout

C6_Witness ==
    /\ dismissed /\ pc = "done" /\ LastDialog = "Spacing"

(***************************************************************************)
(* C7.  Every run of main_wrapper ends with the cleanup: whether main      *)
(* returned, exited through sys.exit or raised, the last host calls are    *)
(* setRedraw(True) if a document is open, statusMessage("") and            *)
(* progressReset(); no host call, and so no move of an object, comes       *)
(* after them, and an exception in flight leads nowhere but to the         *)
(* cleanup.                                                                *)
(***************************************************************************)
CleanupCalls ==
    IF haveDoc
    THEN <<Call("setRedraw", "True"), Call("statusMessage", ""),
           Call("progressReset", "")>>
    ELSE <<Call("statusMessage", ""), Call("progressReset", "")>>

EndsWith(l, tail) ==
    /\ Len(l) >= Len(tail)
    /\ SubSeq(l, Len(l) - Len(tail) + 1, Len(l)) = tail

C7_CleanupAlwaysRuns ==
    /\ pc = "done" => EndsWith(log, CleanupCalls) /\ statusMsg = ""
    /\ exc # "none" => Ended

C7_Witness ==
    /\ pc = "done" /\ haveDoc
    /\ exc \notin {"none", "SystemExit"}

(***************************************************************************)
(* C8.  In the duplicate script the axis, spacing and count prompts retry  *)
(* until valid: after a non-empty entry the script has not terminated;     *)
(* either the prompt has returned the entry, or an error message box has   *)
(* been shown and the same prompt is up again.                             *)
(***************************************************************************)
RetryPrompt ==
    CASE LastDialog = "Axis for Duplication" -> "dup_axis"
      [] LastDialog = "Spacing" -> "dup_spacing"
      [] LastDialog = "Number of Duplicates" -> "dup_count"
      [] OTHER -> ""

\* where main is once the prompt has returned
AfterPrompt ==
    CASE RetryPrompt = "dup_axis" -> "dup_spacing"
      [] RetryPrompt = "dup_spacing" -> "dup_count"
      [] OTHER -> "finally"

C8_RetryUntilValid ==
    (script = "dup" /\ RetryPrompt # "" /\ ~dismissed /\ pc # "done") =>
        /\ exc = "none"
        /\ \/ log[Len(log)].call = "messageBox" /\ pc = RetryPrompt
           \/ log[Len(log)].call = "valueDialog" /\ pc = AfterPrompt

(***************************************************************************)
(* C9.  In the snap script every non-empty invalid entry is handled        *)
(* locally: when get_user_input does not return, an input-error message    *)
(* box has been shown, the script terminates through sys.exit, and no      *)
(* selected object has been moved.                                         *)
(***************************************************************************)
C9_InvalidEntryHandledLocally ==
    (script = "snap" /\ pc = "finally" /\ idx = 0 /\ ValueDialogs # {}
        /\ ~dismissed) =>
        /\ exc = "SystemExit"
        /\ log[Len(log)].call = "messageBox"
        /\ Moves = {}
        /\ pos = Layout

(***************************************************************************)
(* C10.  A successful run of the snap script moves each element of the     *)
(* selection exactly once and nothing else: a selected element keeps its   *)
(* coordinate on the axis not chosen, an object outside the selection      *)
(* keeps its position.                                                     *)
(***************************************************************************)
C10_SnapMovesSelectionOnly ==
    (script = "snap" /\ pc = "done" /\ exc = "none" /\ Len(selected) > 0) =>
        /\ MovedOf(log) = selected
        /\ \A o \in Objects :
               IF IsSelected(o)
               THEN IF axis = <<"X">> THEN pos[o].y = Layout[o].y
                                      ELSE pos[o].x = Layout[o].x
               ELSE pos[o] = Layout[o]

C10_Witness ==
    /\ script = "snap" /\ pc = "done" /\ exc = "none"
    /\ selected = <<"o2">> /\ axis = <<"Y">>
    /\ pos["o2"].y # Layout["o2"].y

=============================================================================
